---- MODULE Spec2Model ----
(***************************************************************************)
(* A model of das_memory_pro: the stream cipher (xor.py), the min-heap     *)
(* (priority_queue.py), the encrypted index and corpora files              *)
(* (file_controller.py) and the binary search of the search menu           *)
(* (das_memory_pro_beta.py).                                               *)
(*                                                                         *)
(* Python byte strings are sequences of integers in 0..255.  A raised      *)
(* IndexError is the value IndexError, which is no byte string.            *)
(***************************************************************************)
EXTENDS Integers, Sequences, FiniteSets, TLC

VARIABLES
    txt,        \* xor.cipher: the buffer given to the first call
    k,          \* xor.cipher: the key given to both calls
    once,       \* cipher(txt, k)
    twice,      \* cipher(cipher(txt, k), k)
    cpc,        \* "init", "enc" (once computed), "dec" (twice computed), "raised"
    heap,       \* PriorityQueue.heap[1:] of a queue of Python ints (heap[0] is None)
    pqOp,       \* the last operation on that queue: "new", "insert", "removeMin", "iter"
    pqBefore,   \* heap as it was when the last operation started
    pqRet,      \* what the last operation returned (iter: the list of yielded entries)
    disk,       \* the bytes of the files .index and .corpora
    ifs,        \* Index._filestream
    ientries,   \* Index._entries
    cfs,        \* Corpora._filestream
    objs,       \* the NewTopic objects of the open CreateMenu, by identity 1..Len(objs)
    raised,     \* the exception that ended the program, "" while it runs
    menu,       \* the menu whose loop runs: "main", "create" or "search"
    newTopics,  \* CreateMenu.newTopics.heap[1:]
    topics,     \* SearchMenu.topics
    searchResults, \* SearchMenu.searchResults
    query,      \* the query of the last search
    detail,     \* what SearchMenu.detail showed last: the topic and its corpus
    saved,      \* history: name, body, offset and endset of every topic stored
    prior,      \* the file object reOpen was last called on and closed, None before
    chunks,     \* history: the strings written to the file since it was last truncated
    fgot,       \* what the reads since the last reOpen, or the last load, returned
    fop,        \* the last operation on the file object or on the Index
    fpre,       \* the file object and the disk as they were when fop started
    reads       \* how many times entries has read the index file since the last _write

cipherVars == <<txt, k, once, twice, cpc>>
pqVars == <<heap, pqOp, pqBefore, pqRet>>
fileVars == <<prior, chunks, fgot, fop, fpre, reads>>

worldVars == <<disk, ifs, ientries, cfs, objs, raised>>
menuVars == <<menu, newTopics, topics, searchResults, query, detail>>
envVars == <<worldVars, menuVars, saved>>

vars == <<txt, k, once, twice, cpc, heap, pqOp, pqBefore, pqRet, disk, ifs,
          ientries, cfs, objs, raised, menu, newTopics, topics, searchResults,
          query, detail, saved, prior, chunks, fgot, fop, fpre, reads>>

(***************************************************************************)
(* Bounds of the model.                                                    *)
(***************************************************************************)
MaxBuf == 3         \* longest buffer given to cipher
MaxKey == 2         \* longest key given to cipher
MaxHeap == 4        \* most entries a queue holds
MaxInt == 2         \* the queue of ints holds 0..MaxInt
MaxTopics == 3      \* most topics created in all
MaxWrites == 3      \* most strings written to the file of SpecFile
MaxRecords == 2     \* most records written to the index of SpecIndex
MaxFile == 3        \* most bytes written to the file of SpecReOpen
MaxReads == 2       \* most passes of entries over the index file between two writes
MaxObjs == 2        \* most NewTopic objects created in SpecTopic

\* The byte values the inputs are drawn from (results range over 0..255).
ByteSample == {0, 97, 255}

RECURSIVE SeqsUpTo(_, _)
SeqsUpTo(S, n) ==
    IF n = 0 THEN {<< >>}
    ELSE LET shorter == SeqsUpTo(S, n - 1)
         IN  shorter \cup {Append(s, x) : s \in {t \in shorter : Len(t) = n - 1}, x \in S}

(***************************************************************************)
(* xor.py                                                                  *)
(***************************************************************************)
IndexError == << -1 >>
TypeError == << -2 >>

\* a ^ b bit by bit, on non-negative integers.
RECURSIVE BitXor(_, _)
BitXor(a, b) ==
    IF a = 0 THEN b
    ELSE IF b = 0 THEN a
    ELSE (((a % 2) + (b % 2)) % 2) + (2 * BitXor(a \div 2, b \div 2))

\* a ^ b for every pair of bytes.
XorTable == [a \in 0..255 |-> [b \in 0..255 |-> BitXor(a, b)]]

\* a | b, where a ^ b is meant.
RECURSIVE xor_or(_, _)
xor_or(a, b) ==
    IF a = 0 THEN b
    ELSE IF b = 0 THEN a
    ELSE (IF a % 2 = 1 \/ b % 2 = 1 THEN 1 ELSE 0) + (2 * xor_or(a \div 2, b \div 2))

\* chr(ord(a) ^ ord(b)) of sxor, on the bytes a and b.
xor(a, b) == XorTable[a][b]

\* Python's s[a:b] for 0 <= a, 0 <= b: both ends are clamped to len(s).
Slice(s, a, b) ==
    LET hi == IF b < Len(s) THEN b ELSE Len(s)
    IN  IF a >= hi THEN << >> ELSE SubSeq(s, a + 1, hi)

\* Python's s * n.
RECURSIVE Repeat(_, _)
Repeat(s, n) == IF n <= 0 THEN << >> ELSE s \o Repeat(s, n - 1)

\* An sxor that starts in the key at a place the first byte of the plaintext
\* chooses.
sxor_keyedByText(plaintext, key) ==
    IF Len(plaintext) > 0 /\ Len(key) = 0 THEN IndexError
    ELSE [i \in 1..Len(plaintext) |->
             xor(plaintext[i], key[((i - 1 + plaintext[1]) % Len(key)) + 1])]

\* sxor: byte i of the plaintext is xored with key[i mod len(key)]; key[0] of
\* an empty key raises IndexError as soon as there is a byte to xor.
sxor(plaintext, key) ==
    IF Len(plaintext) > 0 /\ Len(key) = 0 THEN IndexError
    ELSE [i \in 1..Len(plaintext) |-> xor(plaintext[i], key[((i - 1) % Len(key)) + 1])]

\* The loop of cipher: for i in xrange(1, len(txt)): txt = sxor(txt, k[i-1:len(txt)*i])
RECURSIVE cipherRounds(_, _, _)
cipherRounds(t, kk, i) ==
    IF i >= Len(t) THEN t
    ELSE LET round(r) == IF r = IndexError THEN IndexError ELSE cipherRounds(r, kk, i + 1)
         IN  round(sxor(t, Slice(kk, i - 1, Len(t) * i)))

\* A cipher whose loop runs once more, for a buffer of one byte too.
cipher_extraRound(t, key) == sxor(cipherRounds(t, Repeat(key, Len(t)), 1), key)

cipher(t, key) == cipherRounds(t, Repeat(key, Len(t)), 1)

(***************************************************************************)
(* Python values.  A value is a record [t, v]: t is its type and v its     *)
(* content; a NewTopic value is a reference: v is the identity of the      *)
(* object and name its attribute name, which no method assigns again.      *)
(***************************************************************************)
None == [t |-> "None", v |-> 0]
PyInt(n) == [t |-> "int", v |-> n]
PyStr(s) == [t |-> "str", v |-> s]
Ref(id, name) == [t |-> "NewTopic", v |-> id, name |-> name]

\* Truth-value testing: None, 0 and '' are false; an instance of a class that
\* defines neither __nonzero__ nor __len__ (NewTopic, FindTopic) is true.
bool(x) ==
    CASE x.t = "None" -> FALSE
      [] x.t = "int" -> x.v # 0
      [] x.t = "str" -> x.v # << >>
      [] x.t = "tuple" -> x.v # << >>
      [] OTHER -> TRUE

\* The first position where two byte strings differ, 0 when one is a prefix
\* of the other.
RECURSIVE FirstDiff(_, _, _)
FirstDiff(a, b, i) ==
    IF i > Len(a) \/ i > Len(b) THEN 0
    ELSE IF a[i] # b[i] THEN i
    ELSE FirstDiff(a, b, i + 1)

\* Python's a < b on byte strings.
StrLt(a, b) ==
    LET d == FirstDiff(a, b, 1)
    IN  IF d = 0 THEN Len(a) < Len(b) ELSE a[d] < b[d]

(***************************************************************************)
(* file_controller.py: the comparisons of NewTopic                         *)
(***************************************************************************)
NewTopic__lt__(self, obj) == StrLt(self.name, obj.name)
NewTopic__eq__(self, obj) == self.name = obj.name
NewTopic__le__(self, obj) == NewTopic__lt__(self, obj) \/ NewTopic__eq__(self, obj)
NewTopic__gt__(self, obj) == ~NewTopic__le__(self, obj)

\* a < b and a > b as the heap evaluates them: on ints, or through NewTopic.
lt(a, b) == IF a.t = "NewTopic" THEN NewTopic__lt__(a, b) ELSE a.v < b.v
gt(a, b) == IF a.t = "NewTopic" THEN NewTopic__gt__(a, b) ELSE a.v > b.v

(***************************************************************************)
(* file_controller.py: EncryptedFile.  A file object is a record; the      *)
(* contents of the files are disk[path], the bytes as they are stored.     *)
(* Writes reach the file at once (the buffer of the C library is not       *)
(* modelled), and a file opened in mode "a" starts at the end of the file. *)
(***************************************************************************)
Index_NAME_LENGTH == 32
Index_OFFSET_LENGTH == 6
Index_END_BYTE_LENGTH == 6
Index_OFFSET_BASE == 16
ACCESS_LENGTH == 255
Environment_INDEX == ".index"
Environment_CORPORA == ".corpora"

\* An EncryptedFile that enciphers the key with the start of the pad only.
EncryptedFile_shortPad(dsk, name, key, mode, pad) ==
    LET after == IF mode = "w" \/ name \notin DOMAIN dsk
                 THEN (name :> << >>) @@ dsk
                 ELSE dsk
    IN  IF mode = "r" /\ name \notin DOMAIN dsk
        THEN [f |-> None, disk |-> dsk, raised |-> "IOError"]
        ELSE [f |-> [name |-> name, mode |-> mode,
                     pos |-> IF mode = "a" THEN Len(after[name]) ELSE 0,
                     closed |-> FALSE,
                     _access |-> PyStr(pad),
                     __key |-> PyStr(cipher(key, SubSeq(pad, 1, 1)))],
              disk |-> after,
              raised |-> ""]

\* file.__init__ and EncryptedFile.__init__: the new file object and the disk
\* after the open, or IOError when a file to read does not exist; pad is the
\* random string drawn for _access.  A file opened to append is positioned at
\* its end, as the C library's fopen under Python 2 on Linux leaves it.
EncryptedFile(dsk, name, key, mode, pad) ==
    LET after == IF mode = "w" \/ name \notin DOMAIN dsk
                 THEN (name :> << >>) @@ dsk
                 ELSE dsk
    IN  IF mode = "r" /\ name \notin DOMAIN dsk
        THEN [f |-> None, disk |-> dsk, raised |-> "IOError"]
        ELSE [f |-> [name |-> name, mode |-> mode,
                     pos |-> IF mode = "a" THEN Len(after[name]) ELSE 0,
                     closed |-> FALSE,
                     _access |-> PyStr(pad),
                     __key |-> PyStr(cipher(key, pad))],
              disk |-> after,
              raised |-> ""]

\* The property _key: the plaintext key; on a closed file object __key and
\* _access are None and cipher raises TypeError on len(None).
EncryptedFile_key(f) ==
    IF f.__key.t = "str" /\ f._access.t = "str"
    THEN cipher(f.__key.v, f._access.v)
    ELSE TypeError

\* A close that closes the file and keeps the keys.
EncryptedFile_close_keepKeys(f) == [f EXCEPT !.closed = TRUE]

\* EncryptedFile.close: the file object afterwards.
EncryptedFile_close(f) == [f EXCEPT !.closed = TRUE, !.__key = None, !._access = None]

\* reOpen that does not close the file object it is called on.
EncryptedFile_reOpen_noclose(dsk, f, mode, pad) ==
    IF f.mode # mode
    THEN [self |-> f] @@ EncryptedFile(dsk, f.name, EncryptedFile_key(f), mode, pad)
    ELSE [f |-> f, disk |-> dsk, raised |-> "", self |-> f]

\* reOpen that opens the file again whatever its mode is.
EncryptedFile_reOpen_always(dsk, f, mode, pad) ==
    [self |-> EncryptedFile_close(f)]
        @@ EncryptedFile(dsk, f.name, EncryptedFile_key(f), mode, pad)

\* reOpen: the returned file object, the disk afterwards and self, the file
\* object it was called on, as the call leaves it.
EncryptedFile_reOpen(dsk, f, mode, pad) ==
    IF f.mode # mode
    THEN IF EncryptedFile_key(f) = TypeError
         THEN [f |-> None, disk |-> dsk, raised |-> "TypeError", self |-> f]
         ELSE LET new(r) ==
                      [self |-> IF r.raised = "" THEN EncryptedFile_close(f) ELSE f] @@ r
              IN  new(EncryptedFile(dsk, f.name, EncryptedFile_key(f), mode, pad))
    ELSE [f |-> f, disk |-> dsk, raised |-> "", self |-> f]

\* The bytes of a file after data is written at position pos.
WriteAt(content, pos, data) ==
    IF pos >= Len(content)
    THEN content \o [i \in 1..(pos - Len(content)) |-> 0] \o data
    ELSE SubSeq(content, 1, pos) \o data
         \o SubSeq(content, pos + Len(data) + 1, Len(content))

(***************************************************************************)
(* The objects of a session, as the methods below pass them on: the disk,  *)
(* Index._filestream (ifs), Index._entries (ientries), Corpora._filestream *)
(* (cfs), the NewTopic objects, and the exception raised so far ("" when   *)
(* none).  A statement after a raised exception does not run.              *)
(***************************************************************************)
ok(w) == w.raised = ""
raise(w, e) == IF ok(w) THEN [w EXCEPT !.raised = e] ELSE w

\* A write that stores the string as given, not enciphered.
EncryptedFile_write_plain(w, fs, byte) ==
    IF ~ok(w) THEN w
    ELSE IF w[fs].__key.t # "str" THEN raise(w, "TypeError")
    ELSE IF byte.t # "str" THEN raise(w, "TypeError")
    ELSE IF w[fs].closed THEN raise(w, "ValueError")
    ELSE IF w[fs].mode = "r" THEN raise(w, "IOError")
    ELSE LET f == w[fs]
             old == w.disk[f.name]
             put(data, new) ==
                 [w EXCEPT !.disk[f.name] = new,
                           ![fs].pos = IF f.mode = "a" THEN Len(new) ELSE f.pos + Len(data)]
             written(data) ==
                 IF data = IndexError THEN raise(w, "IndexError")
                 ELSE put(data, IF f.mode = "a" THEN old \o data
                                ELSE WriteAt(old, f.pos, data))
         IN  written(byte.v)

\* EncryptedFile.write(byte) on the file object w[fs].
EncryptedFile_write(w, fs, byte) ==
    IF ~ok(w) THEN w
    ELSE IF w[fs].__key.t # "str" THEN raise(w, "TypeError")
    ELSE IF byte.t # "str" THEN raise(w, "TypeError")
    ELSE IF w[fs].closed THEN raise(w, "ValueError")
    ELSE IF w[fs].mode = "r" THEN raise(w, "IOError")
    ELSE LET f == w[fs]
             old == w.disk[f.name]
             put(data, new) ==
                 [w EXCEPT !.disk[f.name] = new,
                           ![fs].pos = IF f.mode = "a" THEN Len(new) ELSE f.pos + Len(data)]
             written(data) ==
                 IF data = IndexError THEN raise(w, "IndexError")
                 ELSE put(data, IF f.mode = "a" THEN old \o data
                                ELSE WriteAt(old, f.pos, data))
         IN  written(cipher(byte.v, EncryptedFile_key(f)))

\* EncryptedFile.read(size) on the file object w[fs]: w afterwards and the
\* returned string.
EncryptedFile_read(w, fs, size) ==
    IF ~ok(w) THEN [w |-> w, ret |-> None]
    ELSE IF w[fs].closed THEN [w |-> raise(w, "ValueError"), ret |-> None]
    ELSE IF w[fs].mode # "r" THEN [w |-> raise(w, "IOError"), ret |-> None]
    ELSE LET f == w[fs]
             got(raw, data) ==
                 IF data = IndexError
                 THEN [w |-> raise(w, "IndexError"), ret |-> None]
                 ELSE [w |-> [w EXCEPT ![fs].pos = f.pos + Len(raw)], ret |-> PyStr(data)]
             fetched(raw) == got(raw, cipher(raw, EncryptedFile_key(f)))
         IN  fetched(Slice(w.disk[f.name], f.pos, f.pos + size))

\* file.seek(offset) and file.tell() on the file object w[fs].
seek(w, fs, offset) == IF ok(w) THEN [w EXCEPT ![fs].pos = offset] ELSE w
tell(w, fs) == w[fs].pos

\* self._filestream = self._filestream.reOpen(mode), of Index and of Corpora.
setMode(w, fs, mode, pad) ==
    IF ~ok(w) THEN w
    ELSE LET opened(r) ==
                 IF r.raised # "" THEN raise(w, r.raised)
                 ELSE [w EXCEPT ![fs] = r.f, !.disk = r.disk]
         IN  opened(EncryptedFile_reOpen(w.disk, w[fs], mode, pad))

Index_setWrite(w, pad) == setMode(w, "ifs", "w", pad)
Index_setRead(w, pad) == setMode(w, "ifs", "r", pad)

\* A _setAppend that opens the file to write, which empties it.
Corpora_setAppend_write(w, pad) == setMode(w, "cfs", "w", pad)

Corpora_setAppend(w, pad) == setMode(w, "cfs", "a", pad)
Corpora_setRead(w, pad) == setMode(w, "cfs", "r", pad)

(***************************************************************************)
(* priority_queue.py.  A heap h is the Python list heap without its unused *)
(* slot 0: h[i] is heap[i] and Len(h) is len(self).                        *)
(***************************************************************************)
parent(n) == n \div 2
leftChild(n) == n * 2
rightChild(n) == (n * 2) + 1

swap(h, i, j) == [h EXCEPT ![i] = h[j], ![j] = h[i]]

\* bubbleDown that swaps with the left child whenever both children are less.
RECURSIVE bubbleDown_left(_, _)
bubbleDown_left(h, entryNo) ==
    LET n == Len(h)
        L == leftChild(entryNo)
        R == rightChild(entryNo)
        gtL == L <= n /\ gt(h[entryNo], h[L])
        gtR == R <= n /\ gt(h[entryNo], h[R])
    IN  IF ~(entryNo < n /\ (gtL \/ gtR)) THEN h
        ELSE IF gtL THEN bubbleDown_left(swap(h, L, entryNo), L)
        ELSE bubbleDown_left(swap(h, R, entryNo), R)

\* The loop of removeMin, the entry being bubbled down is at entryNo.
RECURSIVE bubbleDown(_, _)
bubbleDown(h, entryNo) ==
    LET n == Len(h)
        L == leftChild(entryNo)
        R == rightChild(entryNo)
        down(gtL, gtR) ==
            IF ~(entryNo < n /\ (gtL \/ gtR)) THEN h
            ELSE IF gtL /\ gtR
                 THEN IF lt(h[L], h[R])
                      THEN bubbleDown(swap(h, L, entryNo), L)
                      ELSE bubbleDown(swap(h, R, entryNo), R)
            ELSE IF gtR THEN bubbleDown(swap(h, R, entryNo), R)
            ELSE bubbleDown(swap(h, L, entryNo), L)
    IN  down(L <= n /\ gt(h[entryNo], h[L]), R <= n /\ gt(h[entryNo], h[R]))

\* removeMin that returns the popped last entry instead of the saved root.
removeMin_popped(h) ==
    IF Len(h) = 0 THEN [heap |-> h, ret |-> None]
    ELSE IF Len(h) = 1 THEN [heap |-> << >>, ret |-> h[1]]
    ELSE [heap |-> bubbleDown([SubSeq(h, 1, Len(h) - 1) EXCEPT ![1] = h[Len(h)]], 1),
          ret |-> h[Len(h)]]

\* removeMin: the heap afterwards and the returned value.
removeMin(h) ==
    IF Len(h) = 0 THEN [heap |-> h, ret |-> None]
    ELSE IF Len(h) = 1 THEN [heap |-> << >>, ret |-> h[1]]
    ELSE [heap |-> bubbleDown([SubSeq(h, 1, Len(h) - 1) EXCEPT ![1] = h[Len(h)]], 1),
          ret |-> h[1]]

\* min that takes the root out of the heap.
min_removing(h) == removeMin(h)

\* min: the heap afterwards and the returned value.
min(h) == [heap |-> h, ret |-> IF Len(h) > 0 THEN h[1] ELSE None]

\* insert without the bubbling up.
insert_append(h, entry) == Append(h, entry)

\* The loop of insert, the new entry is at entryNo.
RECURSIVE bubbleUp(_, _)
bubbleUp(h, entryNo) ==
    IF entryNo > 1 /\ lt(h[entryNo], h[parent(entryNo)])
    THEN bubbleUp(swap(h, entryNo, parent(entryNo)), parent(entryNo))
    ELSE h

insert(h, entry) ==
    LET appended == Append(h, entry)
    IN  IF Len(appended) = 1 THEN appended ELSE bubbleUp(appended, Len(appended))

\* The loop of __iter__ on the queue hc: the yielded entries and hc.heap at
\* the end.
RECURSIVE drain(_)
drain(hc) ==
    LET yield(r, rest) == [out |-> <<r.ret>> \o rest.out, heap |-> rest.heap]
        loop(r) ==
            IF ~bool(r.ret) THEN [out |-> << >>, heap |-> r.heap]
            ELSE yield(r, drain(r.heap))
    IN  loop(removeMin(hc))

\* __iter__ without the copy: hc.heap = self.heap.
iter_alias(h) == drain(h)

\* __iter__: hc.heap = list(self.heap), so self.heap is left as it was.
\* out is what a full iteration yields, heap is self.heap afterwards.
iter(h) == [out |-> drain(h).out, heap |-> h]

(***************************************************************************)
(* file_controller.py: FindTopic and NewTopic                              *)
(***************************************************************************)
FindTopic_NULL == 0

\* The value of the hexadecimal digit c, -1 when c is no such digit.
DigitVal(c) ==
    IF c \in 48..57 THEN c - 48
    ELSE IF c \in 97..102 THEN c - 87
    ELSE IF c \in 65..70 THEN c - 55
    ELSE -1

\* int(s, 16) for a string of hexadecimal digits, -1 for ValueError (a sign,
\* a 0x prefix and surrounding blanks, which int also accepts, are taken as
\* errors).
RECURSIVE int16(_)
int16(s) ==
    IF Len(s) = 0 THEN -1
    ELSE LET d == DigitVal(s[Len(s)])
         IN  IF d = -1 THEN -1
             ELSE IF Len(s) = 1 THEN d
             ELSE LET hi == int16(SubSeq(s, 1, Len(s) - 1))
                  IN  IF hi = -1 THEN -1 ELSE (hi * Index_OFFSET_BASE) + d

\* FindTopic.__init__: the new object, or None when int raises ValueError.
FindTopic(raw_name, raw_offset, raw_endset) ==
    IF int16(raw_offset) = -1 \/ int16(raw_endset) = -1 THEN None
    ELSE [t |-> "FindTopic", name |-> raw_name,
          offset |-> PyInt(int16(raw_offset)), endset |-> PyInt(int16(raw_endset))]

\* The n bytes of chr(randint(1, 0xff)) a NewTopic is padded with; seed stands
\* for the state of the random generator.
Filler(n, seed) == [i \in 1..n |-> ((seed + (i * i)) % 255) + 1]

\* NewTopic.__init__: the fields of the new object.
NewTopic(name, corpus, seed) ==
    [printName |-> name,
     name |-> IF Len(name) >= Index_NAME_LENGTH
              THEN SubSeq(name, 1, Index_NAME_LENGTH - 1) \o <<FindTopic_NULL>>
              ELSE name \o <<FindTopic_NULL>>
                   \o Filler(Index_NAME_LENGTH - Len(name) - 1, seed),
     _corpus |-> PyStr(corpus),
     offset |-> None,
     endset |-> None]

\* The attributes name, offset and endset of a FindTopic or of a NewTopic.
name_of(w, x) == x.name
offset_of(w, x) == IF x.t = "NewTopic" THEN w.objs[x.v].offset ELSE x.offset
endset_of(w, x) == IF x.t = "NewTopic" THEN w.objs[x.v].endset ELSE x.endset

\* setOffset with endset the offset of the last byte of the corpus.
NewTopic_setOffset_last(w, id, offset) ==
    IF ~ok(w) THEN w
    ELSE IF w.objs[id]._corpus.t # "str" THEN raise([w EXCEPT !.objs[id].offset = PyInt(offset)], "TypeError")
    ELSE [w EXCEPT !.objs[id].offset = PyInt(offset),
                   !.objs[id].endset = PyInt(IF Len(w.objs[id]._corpus.v) = 0 THEN offset
                                             ELSE offset + Len(w.objs[id]._corpus.v) - 1)]

\* NewTopic.setOffset on the object id.
NewTopic_setOffset(w, id, offset) ==
    IF ~ok(w) THEN w
    ELSE IF w.objs[id]._corpus.t # "str" THEN raise([w EXCEPT !.objs[id].offset = PyInt(offset)], "TypeError")
    ELSE [w EXCEPT !.objs[id].offset = PyInt(offset),
                   !.objs[id].endset = PyInt(offset + Len(w.objs[id]._corpus.v))]

\* A corpus that returns the body and keeps it.
NewTopic_corpus_keep(w, id) ==
    IF ~ok(w) THEN [w |-> w, ret |-> None]
    ELSE [w |-> w, ret |-> w.objs[id]._corpus]

\* The property NewTopic.corpus on the object id: w afterwards and the
\* returned value.
NewTopic_corpus(w, id) ==
    IF ~ok(w) THEN [w |-> w, ret |-> None]
    ELSE [w |-> [w EXCEPT !.objs[id]._corpus = None], ret |-> w.objs[id]._corpus]

(***************************************************************************)
(* file_controller.py: Index                                               *)
(***************************************************************************)
\* The digits of n in base 16, lower case.
HexDigit(d) == IF d < 10 THEN 48 + d ELSE 87 + d

RECURSIVE hex(_)
hex(n) == IF n < 16 THEN <<HexDigit(n)>> ELSE Append(hex(n \div 16), HexDigit(n % 16))

\* "{0:0{1}x}".format(n, width): at least width digits, padded with zeros.
format0x(n, width) ==
    LET h == hex(n)
    IN  IF Len(h) >= width THEN h ELSE [i \in 1..(width - Len(h)) |-> 48] \o h

\* Index._write(newTopic) for a FindTopic or a NewTopic x.
Index_write(w, x, pad) ==
    LET reload(w4) == IF ok(w4) THEN [w4 EXCEPT !.ientries = None] ELSE w4
        endset(w3) ==
            reload(IF endset_of(w, x).t # "int" THEN raise(w3, "ValueError")
                   ELSE EncryptedFile_write(w3, "ifs",
                            PyStr(format0x(endset_of(w, x).v, Index_END_BYTE_LENGTH))))
        offset(w2) ==
            endset(IF offset_of(w, x).t # "int" THEN raise(w2, "ValueError")
                   ELSE EncryptedFile_write(w2, "ifs",
                            PyStr(format0x(offset_of(w, x).v, Index_OFFSET_LENGTH))))
    IN  offset(EncryptedFile_write(Index_setWrite(w, pad), "ifs", PyStr(name_of(w, x))))

\* Index._nextEntry: w afterwards and the returned FindTopic or None.
Index_nextEntry(w, pad) ==
    LET made(w3, ft) ==
            IF ft = None THEN [w |-> raise(w3, "ValueError"), ret |-> None]
            ELSE [w |-> w3, ret |-> ft]
        entry(name, offset, endset) ==
            IF ~ok(endset.w) THEN [w |-> endset.w, ret |-> None]
            ELSE IF bool(name.ret) /\ bool(offset.ret) /\ bool(endset.ret)
            THEN made(endset.w, FindTopic(name.ret.v, offset.ret.v, endset.ret.v))
            ELSE [w |-> endset.w, ret |-> None]
        readEndset(name, offset) ==
            entry(name, offset, EncryptedFile_read(offset.w, "ifs", Index_END_BYTE_LENGTH))
        readOffset(name) ==
            readEndset(name, EncryptedFile_read(name.w, "ifs", Index_OFFSET_LENGTH))
    IN  readOffset(EncryptedFile_read(Index_setRead(w, pad), "ifs", Index_NAME_LENGTH))

\* The loop of Index._allEntries: w afterwards and the yielded entries.
RECURSIVE allEntriesLoop(_, _)
allEntriesLoop(w, pad) ==
    LET yield(r, rest) == [w |-> rest.w, out |-> <<r.ret>> \o rest.out]
        loop(r) ==
            IF ~bool(r.ret) THEN [w |-> r.w, out |-> << >>]
            ELSE yield(r, allEntriesLoop(r.w, pad))
    IN  loop(Index_nextEntry(w, pad))

Index_allEntries(w, pad) == allEntriesLoop(seek(w, "ifs", 0), pad)

\* An entries that keeps what was read before the error and carries on.
Index_entries_swallow(w, pad) ==
    IF ~ok(w) THEN [w |-> w, ret |-> None, read |-> FALSE]
    ELSE IF ~bool(w.ientries)
    THEN LET loaded(r) ==
                 [w |-> [r.w EXCEPT !.raised = "", !.ientries = [t |-> "tuple", v |-> r.out]],
                  ret |-> [t |-> "tuple", v |-> r.out], read |-> TRUE]
         IN  loaded(Index_allEntries(w, pad))
    ELSE [w |-> w, ret |-> w.ientries, read |-> FALSE]

\* The property Index.entries: w afterwards, the returned tuple, and whether
\* _allEntries was called, which reads the file.
Index_entries(w, pad) ==
    IF ~ok(w) THEN [w |-> w, ret |-> None, read |-> FALSE]
    ELSE IF ~bool(w.ientries)
    THEN LET loaded(r) ==
                 IF ok(r.w)
                 THEN [w |-> [r.w EXCEPT !.ientries = [t |-> "tuple", v |-> r.out]],
                       ret |-> [t |-> "tuple", v |-> r.out], read |-> TRUE]
                 ELSE [w |-> r.w, ret |-> None, read |-> TRUE]
         IN  loaded(Index_allEntries(w, pad))
    ELSE [w |-> w, ret |-> w.ientries, read |-> FALSE]

\* The inner loop left out: no old entry is written before a new one.
writeOldBelow_skip(w, oldEntries, j, i, pad) == [w |-> w, j |-> j]

\* The inner loop of Index.insertEntries: the old entries from index j (from
\* 0) on whose name is less than the name of the new entry i are written:
\* w afterwards and j afterwards.
RECURSIVE writeOldBelow(_, _, _, _, _)
writeOldBelow(w, oldEntries, j, i, pad) ==
    IF ok(w) /\ j < Len(oldEntries) /\ StrLt(oldEntries[j + 1].name, name_of(w, i))
    THEN writeOldBelow(Index_write(w, oldEntries[j + 1], pad), oldEntries, j + 1, i, pad)
    ELSE [w |-> w, j |-> j]

\* The for loop of Index.insertEntries over the new entries from position n.
RECURSIVE mergeLoop(_, _, _, _, _, _)
mergeLoop(w, oldEntries, j, newEntries, n, pad) ==
    IF n > Len(newEntries) THEN [w |-> w, j |-> j]
    ELSE LET new(r) == mergeLoop(Index_write(r.w, newEntries[n], pad), oldEntries, r.j,
                                 newEntries, n + 1, pad)
         IN  new(writeOldBelow(w, oldEntries, j, newEntries[n], pad))

\* The last loop left out: the left overs are not written.
writeLeftOvers_none(w, oldEntries, j, pad) == w

\* The last loop of Index.insertEntries: the left overs are written.
RECURSIVE writeLeftOvers(_, _, _, _)
writeLeftOvers(w, oldEntries, j, pad) ==
    IF ok(w) /\ j < Len(oldEntries)
    THEN writeLeftOvers(Index_write(w, oldEntries[j + 1], pad), oldEntries, j + 1, pad)
    ELSE w

\* Index.insertEntries(newEntries), newEntries being what the iterable yields.
Index_insertEntries(w, newEntries, pad) ==
    LET leftOvers(oldEntries, r) == writeLeftOvers(r.w, oldEntries, r.j, pad)
        merge(old) ==
            IF ~ok(old.w) THEN old.w
            ELSE leftOvers(old.ret.v, mergeLoop(old.w, old.ret.v, 0, newEntries, 1, pad))
    IN  merge(Index_entries(w, pad))

(***************************************************************************)
(* file_controller.py: Corpora and Environment                             *)
(***************************************************************************)
\* Corpora.getCorpus(topic): w afterwards and the returned string.
Corpora_getCorpus(w, topic, pad) ==
    LET w1 == Corpora_setRead(w, pad)
        w2 == seek(w1, "cfs", topic.offset.v)
    IN  EncryptedFile_read(w2, "cfs", topic.endset.v - topic.offset.v)

\* A _write that takes the offset of the topic from a file read from its start.
Corpora_write_fromStart(w, x, pad) ==
    LET write(c) == EncryptedFile_write(c.w, "cfs", c.ret)
        append(w1) == write(NewTopic_corpus(NewTopic_setOffset(w1, x.v, 0), x.v))
    IN  append(Corpora_setAppend(w, pad))

\* Corpora._write(newTopic) for the NewTopic x.
Corpora_write(w, x, pad) ==
    LET write(c) == EncryptedFile_write(c.w, "cfs", c.ret)
        append(w1) == write(NewTopic_corpus(NewTopic_setOffset(w1, x.v, tell(w1, "cfs")), x.v))
    IN  append(Corpora_setAppend(w, pad))

\* An insertEntries that writes the last of newEntries first.
RECURSIVE Corpora_insertEntries_lastFirst(_, _, _)
Corpora_insertEntries_lastFirst(w, newEntries, pad) ==
    IF newEntries = << >> THEN w
    ELSE Corpora_write(Corpora_insertEntries_lastFirst(w, Tail(newEntries), pad),
                       Head(newEntries), pad)

\* Corpora.insertEntries(newEntries).
RECURSIVE Corpora_insertEntries(_, _, _)
Corpora_insertEntries(w, newEntries, pad) ==
    IF newEntries = << >> THEN w
    ELSE Corpora_insertEntries(Corpora_write(w, Head(newEntries), pad),
                               Tail(newEntries), pad)

\* An insertEntries that stores into the Index before the Corpora.
Environment_insertEntries_indexFirst(w, h, pad) ==
    Corpora_insertEntries(Index_insertEntries(w, iter(h).out, pad), iter(h).out, pad)

\* Environment.insertEntries(newEntries) for a PriorityQueue whose heap is h:
\* the queue is iterated once by Corpora and once more by Index.
Environment_insertEntries(w, h, pad) ==
    Index_insertEntries(Corpora_insertEntries(w, iter(h).out, pad), iter(h).out, pad)

\* Environment.close(): Index.close() and Corpora.close() close their
\* _filestream.
Environment_close(w) ==
    [w EXCEPT !.ifs = EncryptedFile_close(@), !.cfs = EncryptedFile_close(@)]

\* Environment.setup(key) on the disk dsk: each file is opened to read, and to
\* write when it does not exist.
OpenOrCreate(dsk, name, key, pad) ==
    LET try(r) == IF r.raised = "IOError" THEN EncryptedFile(dsk, name, key, "w", pad) ELSE r
    IN  try(EncryptedFile(dsk, name, key, "r", pad))

Environment_setup(dsk, key, pad) ==
    LET env(i, c) ==
            [disk |-> c.disk, ifs |-> i.f, ientries |-> None, cfs |-> c.f,
             objs |-> << >>, raised |-> ""]
        corpora(i) == env(i, OpenOrCreate(i.disk, Environment_CORPORA, key, pad))
    IN  corpora(OpenOrCreate(dsk, Environment_INDEX, key, pad))

(***************************************************************************)
(* das_memory_pro_beta.py: SearchMenu.search                               *)
(***************************************************************************)
\* re.match(query, name) for a query without special characters: name starts
\* with query.
re_match(q, name) == Len(q) <= Len(name) /\ SubSeq(name, 1, Len(q)) = q

\* for i in xrange(mid-1, 0, -1), from index i (from 0) on: the appended topics.
RECURSIVE scanUp(_, _, _)
scanUp(tp, q, i) ==
    IF i > 0 /\ re_match(q, tp[i + 1].name)
    THEN <<tp[i + 1]>> \o scanUp(tp, q, i - 1)
    ELSE << >>

\* for i in xrange(mid+1, len(self.topics)), from index i (from 0) on.
RECURSIVE scanDown(_, _, _)
scanDown(tp, q, i) ==
    IF i < Len(tp) /\ re_match(q, tp[i + 1].name)
    THEN <<tp[i + 1]>> \o scanDown(tp, q, i + 1)
    ELSE << >>

\* SearchMenu.search(query, left, right) on the topics tp: searchResults
\* afterwards, results being searchResults before.
RECURSIVE SearchMenu_search(_, _, _, _, _)
SearchMenu_search(tp, results, q, left, right) ==
    LET r == IF right = -1 THEN Len(tp) ELSE right
        mid == (left + r) \div 2
    IN  IF left >= r \/ Len(q) = 0 THEN << >>
        ELSE IF re_match(q, tp[mid + 1].name)
        THEN Append(results, tp[mid + 1]) \o scanUp(tp, q, mid - 1)
             \o scanDown(tp, q, mid + 1)
        ELSE IF StrLt(tp[mid + 1].name, q)
        THEN SearchMenu_search(tp, results, q, mid + 1, r)
        ELSE SearchMenu_search(tp, results, q, left, mid)

\* The variables of the session in the specifications that run no session.
EnvIdle ==
    /\ disk = << >> /\ ifs = None /\ ientries = None /\ cfs = None
    /\ objs = << >> /\ raised = "" /\ menu = "main" /\ newTopics = << >>
    /\ topics = << >> /\ searchResults = << >> /\ query = << >>
    /\ detail = None /\ saved = << >>
    /\ prior = None /\ chunks = << >> /\ fgot = << >> /\ fop = "new" /\ fpre = None
    /\ reads = 0

(***************************************************************************)
(* SpecCipher: cipher applied to a buffer and then to its own result.      *)
(***************************************************************************)
CipherInit ==
    /\ txt \in SeqsUpTo(ByteSample, MaxBuf)
    /\ k \in SeqsUpTo(ByteSample, MaxKey)
    /\ once = << >>
    /\ twice = << >>
    /\ cpc = "init"
    /\ heap = << >> /\ pqOp = "new" /\ pqBefore = << >> /\ pqRet = << >>
    /\ EnvIdle

Encrypt ==
    /\ cpc = "init"
    /\ once' = cipher(txt, k)
    /\ cpc' = IF once' = IndexError THEN "raised" ELSE "enc"
    /\ UNCHANGED <<txt, k, twice>>
    /\ UNCHANGED <<pqVars, envVars, fileVars>>

Decrypt ==
    /\ cpc = "enc"
    /\ twice' = cipher(once, k)
    /\ cpc' = IF twice' = IndexError THEN "raised" ELSE "dec"
    /\ UNCHANGED <<txt, k, once>>
    /\ UNCHANGED <<pqVars, envVars, fileVars>>

CipherNext == Encrypt \/ Decrypt

SpecCipher == CipherInit /\ [][CipherNext]_vars

(***************************************************************************)
(* SpecPQ: a PriorityQueue of Python ints under insert, removeMin and      *)
(* iteration.                                                              *)
(***************************************************************************)
PQInit ==
    /\ heap = << >> /\ pqOp = "new" /\ pqBefore = << >> /\ pqRet = << >>
    /\ txt = << >> /\ k = << >> /\ once = << >> /\ twice = << >> /\ cpc = "init"
    /\ EnvIdle

PQInsert(entry) ==
    /\ Len(heap) < MaxHeap
    /\ heap' = insert(heap, entry)
    /\ pqOp' = "insert"
    /\ pqBefore' = heap
    /\ pqRet' = <<None>>
    /\ UNCHANGED <<cipherVars, envVars, fileVars>>

PQRemoveMin ==
    /\ heap' = removeMin(heap).heap
    /\ pqOp' = "removeMin"
    /\ pqBefore' = heap
    /\ pqRet' = <<removeMin(heap).ret>>
    /\ UNCHANGED <<cipherVars, envVars, fileVars>>

PQMin ==
    /\ heap' = min(heap).heap
    /\ pqOp' = "min"
    /\ pqBefore' = heap
    /\ pqRet' = <<min(heap).ret>>
    /\ UNCHANGED <<cipherVars, envVars, fileVars>>

PQIter ==
    /\ heap' = iter(heap).heap
    /\ pqOp' = "iter"
    /\ pqBefore' = heap
    /\ pqRet' = iter(heap).out
    /\ UNCHANGED <<cipherVars, envVars, fileVars>>

PQNext ==
    \/ \E n \in 0..MaxInt : PQInsert(PyInt(n))
    \/ PQRemoveMin
    \/ PQMin
    \/ PQIter

SpecPQ == PQInit /\ [][PQNext]_vars

(***************************************************************************)
(* Spec: one installation of the program.  A session starts in the main    *)
(* menu; the create menu collects new topics in a PriorityQueue and saves  *)
(* them through Environment.insertEntries; the search menu loads the       *)
(* entries of the index, searches them and shows the corpus of a result.   *)
(* The program can be left and started again on the same files with the    *)
(* same passphrase.                                                        *)
(***************************************************************************)
\* The inputs.
Passphrases == {<<112, 119>>}
Names == {<<97>>, <<97, 98>>, <<98>>}
Bodies == {<< >>, <<120, 121>>}
FillSeeds == {0}
Queries == {<< >>, <<97>>, <<97, 98>>, <<98>>}
Pad(seed) == [i \in 1..ACCESS_LENGTH |-> (seed * i) % 256]
Pads == {Pad(3)}

World ==
    [disk |-> disk, ifs |-> ifs, ientries |-> ientries, cfs |-> cfs,
     objs |-> objs, raised |-> raised]

SetWorld(w) ==
    /\ disk' = w.disk
    /\ ifs' = w.ifs
    /\ ientries' = w.ientries
    /\ cfs' = w.cfs
    /\ objs' = w.objs
    /\ raised' = w.raised

Init ==
    /\ \E key \in Passphrases, pad \in Pads :
         \E w \in {Environment_setup(<< >>, key, pad)} :
            /\ disk = w.disk /\ ifs = w.ifs /\ ientries = w.ientries
            /\ cfs = w.cfs /\ objs = w.objs /\ raised = w.raised
    /\ menu = "main" /\ newTopics = << >> /\ topics = << >>
    /\ searchResults = << >> /\ query = << >> /\ detail = None
    /\ saved = << >>
    /\ txt = << >> /\ k = << >> /\ once = << >> /\ twice = << >> /\ cpc = "init"
    /\ heap = << >> /\ pqOp = "new" /\ pqBefore = << >> /\ pqRet = << >>
    /\ prior = None /\ chunks = << >> /\ fgot = << >> /\ fop = "new" /\ fpre = None
    /\ reads = 0

\* MainMenu.createMenu: CreateMenu.__init__.
OpenCreateMenu ==
    /\ raised = "" /\ menu = "main"
    /\ menu' = "create"
    /\ newTopics' = << >>
    /\ UNCHANGED <<worldVars, topics, searchResults, query, detail, saved>>
    /\ UNCHANGED <<cipherVars, pqVars, fileVars>>

\* CreateMenu.insert: a NewTopic is created and inserted, and the queue is
\* iterated to show the new topics.
CreateInsert(name, corpus, seed) ==
    /\ raised = "" /\ menu = "create"
    /\ Len(saved) + Len(objs) < MaxTopics
    /\ objs' = Append(objs, NewTopic(name, corpus, seed))
    /\ newTopics' = iter(insert(newTopics, Ref(Len(objs'), objs'[Len(objs')].name))).heap
    /\ UNCHANGED <<disk, ifs, ientries, cfs, raised>>
    /\ UNCHANGED <<menu, topics, searchResults, query, detail, saved>>
    /\ UNCHANGED <<cipherVars, pqVars, fileVars>>

\* What the history gains when the queue h is stored: the topics in the order
\* Corpora writes them, with the body each was created with and the offset
\* and endset it has in w.
Stored(w, h) ==
    LET out == iter(h).out
    IN  [i \in 1..Len(out) |->
            [id |-> out[i].v,
             name |-> objs[out[i].v].name,
             body |-> objs[out[i].v]._corpus.v,
             offset |-> w.objs[out[i].v].offset,
             endset |-> w.objs[out[i].v].endset]]

\* CreateMenu.saveAndQuit.
SaveAndQuit(pad) ==
    /\ raised = "" /\ menu = "create"
    /\ \E w \in {IF Len(newTopics) > 0
                 THEN Environment_insertEntries(World, newTopics, pad)
                 ELSE World} :
          /\ SetWorld([w EXCEPT !.objs = << >>])
          /\ saved' = IF Len(newTopics) > 0 /\ ok(w)
                      THEN saved \o Stored(w, newTopics)
                      ELSE saved
    /\ menu' = "main"
    /\ newTopics' = << >>
    /\ UNCHANGED <<topics, searchResults, query, detail>>
    /\ UNCHANGED <<cipherVars, pqVars, fileVars>>

\* Menu.quit in the create menu or in the search menu.
QuitMenu ==
    /\ raised = "" /\ menu # "main"
    /\ menu' = "main"
    /\ objs' = << >> /\ newTopics' = << >>
    /\ topics' = << >> /\ searchResults' = << >> /\ query' = << >> /\ detail' = None
    /\ UNCHANGED <<disk, ifs, ientries, cfs, raised, saved>>
    /\ UNCHANGED <<cipherVars, pqVars, fileVars>>

\* MainMenu.searchMenu: SearchMenu.__init__ reads env.index.entries.
OpenSearchMenu(pad) ==
    /\ raised = "" /\ menu = "main"
    /\ \E r \in {Index_entries(World, pad)} :
          /\ SetWorld(r.w)
          /\ topics' = IF ok(r.w) THEN r.ret.v ELSE << >>
    /\ menu' = "search"
    /\ searchResults' = << >> /\ query' = << >> /\ detail' = None
    /\ UNCHANGED <<newTopics, saved>>
    /\ UNCHANGED <<cipherVars, pqVars, fileVars>>

\* SearchMenu.insert, one key typed: the detail window is cleared, the results
\* are emptied and the query typed so far is searched.
Search(q) ==
    /\ raised = "" /\ menu = "search"
    /\ query' = q
    /\ searchResults' = SearchMenu_search(topics, << >>, q, 0, -1)
    /\ detail' = None
    /\ UNCHANGED <<worldVars, menu, newTopics, topics, saved>>
    /\ UNCHANGED <<cipherVars, pqVars, fileVars>>

\* SearchMenu.detail with the cursor on the result at index sel (from 1).
Detail(sel, pad) ==
    /\ raised = "" /\ menu = "search"
    /\ sel \in 1..Len(searchResults)
    /\ \E r \in {Corpora_getCorpus(World, searchResults[sel], pad)} :
          /\ SetWorld(r.w)
          /\ detail' = [t |-> "detail", topic |-> searchResults[sel], corpus |-> r.ret]
    /\ UNCHANGED <<menu, newTopics, topics, searchResults, query, saved>>
    /\ UNCHANGED <<cipherVars, pqVars, fileVars>>

\* The program is left from the main menu (the interpreter closes the files)
\* and started again with the same passphrase.
Restart(pad) ==
    /\ raised = "" /\ menu = "main"
    /\ SetWorld(Environment_setup(disk, EncryptedFile_key(ifs), pad))
    /\ UNCHANGED <<menuVars, saved>>
    /\ UNCHANGED <<cipherVars, pqVars, fileVars>>

Next ==
    \/ OpenCreateMenu
    \/ \E name \in Names, corpus \in Bodies, seed \in FillSeeds :
          CreateInsert(name, corpus, seed)
    \/ \E pad \in Pads : SaveAndQuit(pad)
    \/ QuitMenu
    \/ \E pad \in Pads : OpenSearchMenu(pad)
    \/ \E q \in Queries : Search(q)
    \/ \E sel \in 1..MaxTopics, pad \in Pads : Detail(sel, pad)
    \/ \E pad \in Pads : Restart(pad)

Spec == Init /\ [][Next]_vars

(***************************************************************************)
(* SpecFile: one EncryptedFile held as _filestream, the way Index and      *)
(* Corpora hold theirs: it is created to write, written to, read from, and *)
(* its mode is changed by _setWrite, _setRead and _setAppend.  The file    *)
(* object a reOpen closed is kept in prior and can still be called.        *)
(***************************************************************************)
FileKeys == {<<112, 119>>, <<7>>}
FileChunks == {<< >>, <<104>>, <<104, 105>>, <<0, 255, 97>>}
FileModes == {"r", "w", "a"}

\* The variables of the session that SpecFile leaves alone.
FileFrame == <<ientries, cfs, objs, menuVars, saved, cipherVars, pqVars, reads>>

FileInit ==
    /\ \E key \in FileKeys, pad \in Pads :
          \E r \in {EncryptedFile(<< >>, Environment_INDEX, key, "w", pad)} :
             disk = r.disk /\ ifs = r.f
    /\ raised = "" /\ prior = None /\ chunks = << >> /\ fgot = << >>
    /\ fop = "open" /\ fpre = None /\ reads = 0
    /\ ientries = None /\ cfs = None /\ objs = << >>
    /\ menu = "main" /\ newTopics = << >> /\ topics = << >>
    /\ searchResults = << >> /\ query = << >> /\ detail = None /\ saved = << >>
    /\ txt = << >> /\ k = << >> /\ once = << >> /\ twice = << >> /\ cpc = "init"
    /\ heap = << >> /\ pqOp = "new" /\ pqBefore = << >> /\ pqRet = << >>

\* EncryptedFile.write(byte).
FileWrite(byte) ==
    /\ raised = "" /\ ifs.mode # "r"
    /\ Len(chunks) < MaxWrites
    /\ \E w \in {EncryptedFile_write(World, "ifs", PyStr(byte))} :
          /\ disk' = w.disk /\ ifs' = w.ifs /\ raised' = w.raised
          /\ chunks' = IF ok(w) THEN Append(chunks, byte) ELSE chunks
    /\ fop' = "write"
    /\ fpre' = [f |-> ifs, disk |-> disk]
    /\ UNCHANGED <<prior, fgot>>
    /\ UNCHANGED FileFrame

\* self._filestream = self._filestream.reOpen(mode).
FileReOpen(mode, pad) ==
    /\ raised = ""
    /\ \E w \in {setMode(World, "ifs", mode, pad)} :
          disk' = w.disk /\ ifs' = w.ifs /\ raised' = w.raised
    /\ prior' = IF ifs.mode # mode
                THEN EncryptedFile_reOpen(disk, ifs, mode, pad).self
                ELSE prior
    /\ chunks' = IF ifs.mode # mode /\ mode = "w" THEN << >> ELSE chunks
    /\ fgot' = IF ifs.mode # mode THEN << >> ELSE fgot
    /\ fop' = IF ifs.mode # mode THEN "reOpen" ELSE "same"
    /\ fpre' = [f |-> ifs, disk |-> disk]
    /\ UNCHANGED FileFrame

\* EncryptedFile.read(size), size the length of the next string written.
FileRead ==
    /\ raised = "" /\ ifs.mode = "r"
    /\ Len(fgot) < Len(chunks)
    /\ \E r \in {EncryptedFile_read(World, "ifs", Len(chunks[Len(fgot) + 1]))} :
          /\ disk' = r.w.disk /\ ifs' = r.w.ifs /\ raised' = r.w.raised
          /\ fgot' = IF ok(r.w) THEN Append(fgot, r.ret.v) ELSE fgot
    /\ fop' = "read"
    /\ fpre' = [f |-> ifs, disk |-> disk]
    /\ UNCHANGED <<prior, chunks>>
    /\ UNCHANGED FileFrame

\* read, write or _key on the file object the last reOpen closed.
FilePriorUse(op) ==
    /\ raised = "" /\ prior # None
    /\ \E w \in {CASE op = "read" ->
                       EncryptedFile_read([World EXCEPT !.ifs = prior], "ifs", 1).w
                   [] op = "write" ->
                       EncryptedFile_write([World EXCEPT !.ifs = prior], "ifs", PyStr(<<104>>))
                   [] OTHER ->
                       IF EncryptedFile_key(prior) = TypeError
                       THEN raise(World, "TypeError")
                       ELSE World} :
          disk' = w.disk /\ raised' = w.raised
    /\ fop' = "prior"
    /\ fpre' = [f |-> ifs, disk |-> disk]
    /\ UNCHANGED <<ifs, prior, chunks, fgot>>
    /\ UNCHANGED FileFrame

FileNext ==
    \/ \E byte \in FileChunks : FileWrite(byte)
    \/ \E mode \in FileModes, pad \in Pads : FileReOpen(mode, pad)
    \/ FileRead
    \/ \E op \in {"read", "write", "_key"} : FilePriorUse(op)

SpecFile == FileInit /\ [][FileNext]_vars

(***************************************************************************)
(* SpecIndex: the Index of a new Environment.  Records are written by      *)
(* _write and loaded by the property entries; between the two the file may *)
(* be damaged: one stored byte changed, or the file cut short as a write   *)
(* that did not finish leaves it.  chunks holds the records written since  *)
(* the file was last opened to write, fgot what entries returned, fpre the *)
(* damage done.                                                            *)
(***************************************************************************)
RecordLength == Index_NAME_LENGTH + Index_OFFSET_LENGTH + Index_END_BYTE_LENGTH

IndexNames == {NewTopic(n, << >>, 0).name : n \in {<<97>>, <<98>>}}

\* Offset and endset as Corpora._write sets them from tell(): the last two
\* pairs are those of a corpora file of 16 MiB and more.
IndexOffsets ==
    {<<0, 2>>, <<255, 4095>>,
     <<(Index_OFFSET_BASE ^ Index_OFFSET_LENGTH) - 3, Index_OFFSET_BASE ^ Index_OFFSET_LENGTH>>,
     <<Index_OFFSET_BASE ^ Index_OFFSET_LENGTH, (Index_OFFSET_BASE ^ Index_OFFSET_LENGTH) + 5>>}

\* The bytes a damaged byte is xored with, and where the byte lies: in a name,
\* in an offset and in an endset of the first record, in an offset of the
\* second.
CorruptDeltas == {1, 87}
CorruptPositions ==
    {1, Index_NAME_LENGTH + Index_OFFSET_LENGTH, RecordLength,
     RecordLength + Index_NAME_LENGTH + 1}

\* The number of bytes a write that did not finish leaves out.
CutLengths == 1..(RecordLength - 1)

IndexFrame == <<prior, menuVars, saved, cipherVars, pqVars>>

IndexInit ==
    /\ \E key \in Passphrases, pad \in Pads :
          \E w \in {Environment_setup(<< >>, key, pad)} :
             /\ disk = w.disk /\ ifs = w.ifs /\ ientries = w.ientries
             /\ cfs = w.cfs /\ objs = w.objs /\ raised = w.raised
    /\ prior = None /\ chunks = << >> /\ fgot = << >>
    /\ fop = "open" /\ fpre = None /\ reads = 0
    /\ menu = "main" /\ newTopics = << >> /\ topics = << >>
    /\ searchResults = << >> /\ query = << >> /\ detail = None /\ saved = << >>
    /\ txt = << >> /\ k = << >> /\ once = << >> /\ twice = << >> /\ cpc = "init"
    /\ heap = << >> /\ pqOp = "new" /\ pqBefore = << >> /\ pqRet = << >>

\* Index._write(x) for a topic x of the given name, offset and endset.
IndexWrite(name, oe, pad) ==
    /\ raised = ""
    /\ Len(chunks) < MaxRecords
    /\ fpre = None \/ ifs.mode = "r"
    /\ \E x \in {[t |-> "FindTopic", name |-> name,
                   offset |-> PyInt(oe[1]), endset |-> PyInt(oe[2])]} :
          /\ SetWorld(Index_write(World, x, pad))
          /\ chunks' = IF ifs.mode = "w" THEN Append(chunks, x) ELSE <<x>>
    /\ fop' = "write"
    /\ fgot' = << >>
    /\ fpre' = None
    /\ reads' = 0
    /\ UNCHANGED IndexFrame

\* The property Index.entries, read up to MaxReads times between two writes.
IndexLoad(pad) ==
    /\ raised = ""
    /\ reads < MaxReads
    /\ \E r \in {Index_entries(World, pad)} :
          /\ SetWorld(r.w)
          /\ fgot' = IF ok(r.w) THEN r.ret.v ELSE << >>
          /\ fop' = IF r.read THEN "load" ELSE "cached"
          /\ reads' = IF r.read THEN reads + 1 ELSE reads
    /\ UNCHANGED <<chunks, fpre>>
    /\ UNCHANGED IndexFrame

\* One stored byte of the index file is changed.
IndexCorrupt(pos, delta) ==
    /\ raised = "" /\ fop = "write"
    /\ pos <= Len(disk[Environment_INDEX])
    /\ disk' = [disk EXCEPT ![Environment_INDEX][pos] = xor(@, delta)]
    /\ fop' = "corrupt"
    /\ fpre' = [kind |-> "corrupt", pos |-> pos]
    /\ UNCHANGED <<ifs, ientries, cfs, objs, raised, chunks, fgot, reads>>
    /\ UNCHANGED IndexFrame

\* The index file is left without its last cut bytes.
IndexTruncate(cut) ==
    /\ raised = "" /\ fop = "write"
    /\ cut <= Len(disk[Environment_INDEX])
    /\ disk' = [disk EXCEPT ![Environment_INDEX] = SubSeq(@, 1, Len(@) - cut)]
    /\ fop' = "truncate"
    /\ fpre' = [kind |-> "truncate", pos |-> Len(disk[Environment_INDEX]) - cut]
    /\ UNCHANGED <<ifs, ientries, cfs, objs, raised, chunks, fgot, reads>>
    /\ UNCHANGED IndexFrame

IndexNext ==
    \/ \E name \in IndexNames, oe \in IndexOffsets, pad \in Pads : IndexWrite(name, oe, pad)
    \/ \E pad \in Pads : IndexLoad(pad)
    \/ \E pos \in CorruptPositions, delta \in CorruptDeltas : IndexCorrupt(pos, delta)
    \/ \E cut \in CutLengths : IndexTruncate(cut)

SpecIndex == IndexInit /\ [][IndexNext]_vars

(***************************************************************************)
(* SpecReOpen: one EncryptedFile and the statements of reOpen and close    *)
(* one by one.  ifs is the file object reOpen is called on, prior the new  *)
(* file object f while reOpen runs, chunks the enciphered bytes written    *)
(* through ifs that the buffer of the C library still holds, k the         *)
(* passphrase the first file object was given, fop the statement reached.  *)
(* The library writes its buffer out when it is full or flushed: when that *)
(* happens before close is left open.                                      *)
(***************************************************************************)
HandlePads == {Pad(3), Pad(7)}
HandleChunks == {<<104>>, <<105, 0>>}
HandleKeys == FileKeys \cup {<< >>}

\* The disk after the buffer buf of the file object f is written out.
Flushed(dsk, f, buf) ==
    IF buf = << >> THEN dsk
    ELSE [dsk EXCEPT ![f.name] = IF f.mode = "a" THEN @ \o buf
                                 ELSE WriteAt(@, f.pos - Len(buf), buf)]

HandleFrame == <<ientries, objs, menuVars, saved, cipherVars, pqVars, fgot, reads>>

HandleInit ==
    /\ k \in HandleKeys
    /\ \E pad \in HandlePads, mode \in {"w", "a"} :
          \E r \in {EncryptedFile(<< >>, Environment_INDEX, k, mode, pad)} :
             \E c \in {EncryptedFile(r.disk, Environment_CORPORA, k, "w", pad)} :
                disk = c.disk /\ ifs = r.f /\ cfs = c.f
    /\ raised = "" /\ prior = None /\ chunks = << >> /\ fgot = << >>
    /\ fop = "idle" /\ fpre = None /\ reads = 0
    /\ ientries = None /\ objs = << >>
    /\ menu = "main" /\ newTopics = << >> /\ topics = << >>
    /\ searchResults = << >> /\ query = << >> /\ detail = None /\ saved = << >>
    /\ txt = << >> /\ once = << >> /\ twice = << >> /\ cpc = "init"
    /\ heap = << >> /\ pqOp = "new" /\ pqBefore = << >> /\ pqRet = << >>

\* EncryptedFile.write(byte): the enciphered bytes go to the buffer; with an
\* empty key cipher raises IndexError and nothing is written.
HandleWrite(byte) ==
    /\ raised = "" /\ fop = "idle" /\ ifs.mode # "r"
    /\ Len(disk[ifs.name]) + Len(chunks) + Len(byte) <= MaxFile
    /\ \E data \in {cipher(byte, EncryptedFile_key(ifs))} :
          /\ chunks' = IF data = IndexError THEN chunks ELSE chunks \o data
          /\ ifs' = IF data = IndexError THEN ifs ELSE [ifs EXCEPT !.pos = @ + Len(byte)]
          /\ raised' = IF data = IndexError THEN "IndexError" ELSE ""
    /\ UNCHANGED <<disk, prior, fop>>
    /\ UNCHANGED <<cfs, fpre>>
    /\ UNCHANGED HandleFrame

\* The library writes the buffer out.
HandleFlush ==
    /\ raised = "" /\ fop = "idle" /\ chunks # << >>
    /\ disk' = Flushed(disk, ifs, chunks)
    /\ chunks' = << >>
    /\ UNCHANGED <<ifs, raised, prior, fop>>
    /\ UNCHANGED <<cfs, fpre>>
    /\ UNCHANGED HandleFrame

\* reOpen(mode) with self.mode == mode: return self.
ReOpenSame(mode) ==
    /\ raised = "" /\ fop = "idle" /\ ifs.mode = mode
    /\ UNCHANGED <<disk, ifs, raised, prior, chunks, fop>>
    /\ UNCHANGED <<cfs, fpre>>
    /\ UNCHANGED HandleFrame

\* reOpen(mode), first statement: f = self.__class__(self.name, self._key, mode).
ReOpenOpen(mode, pad) ==
    /\ raised = "" /\ fop = "idle" /\ ifs.mode # mode
    /\ \E r \in {EncryptedFile(disk, ifs.name, EncryptedFile_key(ifs), mode, pad)} :
          disk' = r.disk /\ prior' = r.f /\ raised' = r.raised
    /\ fop' = "opened"
    /\ UNCHANGED <<ifs, chunks>>
    /\ UNCHANGED <<cfs, fpre>>
    /\ UNCHANGED HandleFrame

\* reOpen(mode), second statement: self.close().
ReOpenClose ==
    /\ raised = "" /\ fop = "opened"
    /\ disk' = Flushed(disk, ifs, chunks)
    /\ ifs' = EncryptedFile_close(ifs)
    /\ chunks' = << >>
    /\ fop' = "closed"
    /\ UNCHANGED <<raised, prior>>
    /\ fpre' = [f |-> ifs, disk |-> disk, buf |-> chunks]
    /\ UNCHANGED cfs
    /\ UNCHANGED HandleFrame

\* reOpen(mode), third statement: return f, which the caller stores.
ReOpenReturn ==
    /\ raised = "" /\ fop = "closed"
    /\ ifs' = prior
    /\ prior' = None
    /\ fop' = "idle"
    /\ UNCHANGED <<disk, raised, chunks>>
    /\ UNCHANGED <<cfs, fpre>>
    /\ UNCHANGED HandleFrame

\* EncryptedFile.close(): self.flush(); file.close(self); the keys set to None.
HandleClose ==
    /\ raised = "" /\ fop = "idle"
    /\ disk' = Flushed(disk, ifs, chunks)
    /\ ifs' = EncryptedFile_close(ifs)
    /\ chunks' = << >>
    /\ fop' = "shut"
    /\ UNCHANGED <<raised, prior>>
    /\ fpre' = [f |-> ifs, disk |-> disk, buf |-> chunks]
    /\ UNCHANGED cfs
    /\ UNCHANGED HandleFrame

\* Environment.close(): self._index.close(); self._corpora.close().
EnvironmentClose ==
    /\ raised = "" /\ fop = "idle"
    /\ \E w \in {Environment_close([World EXCEPT !.disk = Flushed(disk, ifs, chunks)])} :
          disk' = w.disk /\ ifs' = w.ifs /\ cfs' = w.cfs
    /\ chunks' = << >>
    /\ fop' = "envclosed"
    /\ fpre' = [f |-> ifs, disk |-> disk, buf |-> chunks]
    /\ UNCHANGED <<raised, prior>>
    /\ UNCHANGED HandleFrame

ReOpenNext ==
    \/ \E byte \in HandleChunks : HandleWrite(byte)
    \/ HandleFlush
    \/ \E mode \in FileModes : ReOpenSame(mode)
    \/ \E mode \in FileModes, pad \in HandlePads : ReOpenOpen(mode, pad)
    \/ ReOpenClose
    \/ ReOpenReturn
    \/ HandleClose
    \/ EnvironmentClose

SpecReOpen == HandleInit /\ [][ReOpenNext]_vars

(***************************************************************************)
(* SpecTopic: NewTopic objects and the Corpora of a new Environment, as a  *)
(* caller of file_controller may use them: topics are created, given to    *)
(* Corpora.insertEntries in any order and more than once, and their        *)
(* property corpus is read.  saved holds what each write stored, fop the   *)
(* last operation, fpre the object it was applied to as it was before,     *)
(* fgot what it returned.                                                  *)
(***************************************************************************)
\* A name of n bytes.
LongName(n) == [i \in 1..n |-> 97 + (i % 3)]

\* The name and the corpus a NewTopic is created with: names that are empty,
\* short, with a NULL byte, of 31, 32 and 33 bytes; bodies of 0, 1 and 2 bytes.
TopicInputs ==
    {<< << >>, <<120>> >>,
     << <<97>>, <<121, 122>> >>,
     << <<97, FindTopic_NULL, 98>>, << >> >>,
     << LongName(Index_NAME_LENGTH - 1), <<121, 122>> >>,
     << LongName(Index_NAME_LENGTH), << >> >>,
     << LongName(Index_NAME_LENGTH + 1), <<120>> >>}

\* FindTopic.cleanName: self.name[:self.name.rfind(self.NULL)]; rfind is -1
\* when the name holds no NULL and the slice then leaves the last byte out.
rfind(s, c) ==
    IF \E i \in 1..Len(s) : s[i] = c
    THEN (CHOOSE i \in 1..Len(s) : s[i] = c /\ \A j \in (i + 1)..Len(s) : s[j] # c) - 1
    ELSE -1

\* A cleanName that cuts the name at its first NULL.
FindTopic_cleanName_first(name) ==
    SubSeq(name, 1, (CHOOSE i \in 1..Len(name) :
                        name[i] = FindTopic_NULL /\ \A j \in 1..(i - 1) : name[j] # FindTopic_NULL) - 1)

\* FindTopic.cleanName: the name up to its last NULL.
FindTopic_cleanName(name) ==
    IF rfind(name, FindTopic_NULL) >= 0
    THEN SubSeq(name, 1, rfind(name, FindTopic_NULL))
    ELSE SubSeq(name, 1, Len(name) - 1)

\* What Corpora.insertEntries stores for the list of the objects ids, one
\* _write after the other: the body each _write that returned was given, and
\* the offset and endset the object had when it returned.
RECURSIVE NewlyStored(_, _, _)
NewlyStored(w, ids, pad) ==
    IF ids = << >> \/ ~ok(w) THEN << >>
    ELSE LET step(w1) ==
                 (IF ok(w1)
                  THEN <<[id |-> Head(ids),
                          body |-> w.objs[Head(ids)]._corpus.v,
                          offset |-> w1.objs[Head(ids)].offset,
                          endset |-> w1.objs[Head(ids)].endset]>>
                  ELSE << >>) \o NewlyStored(w1, Tail(ids), pad)
         IN  step(Corpora_write(w, Ref(Head(ids), w.objs[Head(ids)].name), pad))

TopicFrame == <<ifs, ientries, menuVars, cipherVars, pqVars, prior, chunks, reads>>

TopicInit ==
    /\ \E key \in Passphrases, pad \in Pads :
          \E w \in {Environment_setup(<< >>, key, pad)} :
             /\ disk = w.disk /\ ifs = w.ifs /\ ientries = w.ientries
             /\ cfs = w.cfs /\ objs = w.objs /\ raised = w.raised
    /\ prior = None /\ chunks = << >> /\ fgot = << >>
    /\ fop = "open" /\ fpre = None /\ reads = 0
    /\ menu = "main" /\ newTopics = << >> /\ topics = << >>
    /\ searchResults = << >> /\ query = << >> /\ detail = None /\ saved = << >>
    /\ txt = << >> /\ k = << >> /\ once = << >> /\ twice = << >> /\ cpc = "init"
    /\ heap = << >> /\ pqOp = "new" /\ pqBefore = << >> /\ pqRet = << >>

\* NewTopic(name, corpus).
TopicNew(name, corpus, seed) ==
    /\ raised = ""
    /\ Len(objs) < MaxObjs
    /\ objs' = Append(objs, NewTopic(name, corpus, seed))
    /\ fop' = "new"
    /\ fpre' = None
    /\ fgot' = << >>
    /\ UNCHANGED <<disk, cfs, raised, saved>>
    /\ UNCHANGED TopicFrame

\* Corpora.insertEntries(newEntries) for the list of the objects ids.
TopicInsertEntries(ids, pad) ==
    /\ raised = ""
    /\ \A i \in 1..Len(ids) : ids[i] <= Len(objs)
    /\ \E w \in {Corpora_insertEntries(World,
                    [i \in 1..Len(ids) |-> Ref(ids[i], objs[ids[i]].name)], pad)} :
          /\ disk' = w.disk /\ cfs' = w.cfs /\ objs' = w.objs /\ raised' = w.raised
          /\ saved' = saved \o NewlyStored(World, ids, pad)
    /\ fop' = "insertEntries"
    /\ fpre' = [ids |-> ids, objs |-> objs, disk |-> disk]
    /\ fgot' = << >>
    /\ UNCHANGED TopicFrame

\* The property NewTopic.corpus of the object id.
TopicCorpus(id) ==
    /\ raised = ""
    /\ id <= Len(objs)
    /\ \E r \in {NewTopic_corpus(World, id)} :
          /\ objs' = r.w.objs
          /\ fgot' = <<r.ret>>
    /\ fop' = "corpus"
    /\ fpre' = [ids |-> <<id>>, objs |-> objs, disk |-> disk]
    /\ UNCHANGED <<disk, cfs, raised, saved>>
    /\ UNCHANGED TopicFrame

\* FindTopic.cleanName on the entry read back for the object id.
TopicCleanName(id) ==
    /\ raised = ""
    /\ id <= Len(objs)
    /\ fgot' = <<FindTopic_cleanName(objs[id].name)>>
    /\ fop' = "cleanName"
    /\ fpre' = [ids |-> <<id>>, objs |-> objs, disk |-> disk]
    /\ UNCHANGED <<disk, cfs, objs, raised, saved>>
    /\ UNCHANGED TopicFrame

TopicNext ==
    \/ \E in \in TopicInputs, seed \in FillSeeds : TopicNew(in[1], in[2], seed)
    \/ \E a \in 1..MaxObjs, pad \in Pads : TopicInsertEntries(<<a>>, pad)
    \/ \E a \in 1..MaxObjs, b \in 1..MaxObjs, pad \in Pads : TopicInsertEntries(<<a, b>>, pad)
    \/ \E id \in 1..MaxObjs : TopicCorpus(id)
    \/ \E id \in 1..MaxObjs : TopicCleanName(id)

SpecTopic == TopicInit /\ [][TopicNext]_vars

(***************************************************************************)
(* The claims                                                              *)
(***************************************************************************)
\* C1 (as stated): for all buffers b and all keys k, cipher(cipher(b, k), k) = b.
C1_RoundTripAllKeys ==
    /\ cpc # "raised"
    /\ cpc = "dec" => twice = txt

\* C1 (amended): for all buffers b and all keys k, the key non-empty or the
\* buffer of at most one byte, both calls return and cipher(cipher(b, k), k) = b.
C1_RoundTrip ==
    (k # << >> \/ Len(txt) <= 1) =>
        /\ cpc # "raised"
        /\ cpc = "dec" => twice = txt

C1_Witness == cpc = "dec" /\ Len(txt) = MaxBuf /\ k # << >> /\ once # txt

\* The number of times x occurs in the sequence s.
Count(s, x) == Cardinality({i \in 1..Len(s) : s[i] = x})

\* s and u hold the same elements, each as many times.
SameBag(s, u) ==
    /\ Len(s) = Len(u)
    /\ \A i \in 1..Len(s) : Count(s, s[i]) = Count(u, s[i])

\* s is in ascending order of the keys.
Ascending(s) == \A i \in 1..(Len(s) - 1) : ~lt(s[i + 1], s[i])

\* C7: after any sequence of insert and removeMin, every node at index i >= 2
\* has a key greater than or equal to the key of its parent at index i // 2.
C7_HeapOrder == \A i \in 2..Len(heap) : ~lt(heap[i], heap[parent(i)])

C7_Witness ==
    /\ pqOp = "removeMin"
    /\ Len(heap) >= 3
    /\ heap[1] # pqBefore[Len(pqBefore)]
    /\ heap[1] # heap[3]

\* C8: iterating a queue yields every element it holds, each exactly once, in
\* ascending order (the reference sort of the same multiset), for any payload.
C8_IterYieldsAllSorted ==
    pqOp = "iter" => (SameBag(pqRet, pqBefore) /\ Ascending(pqRet))

\* C9: iterating a queue leaves the heap array as it was, and iterating it
\* again gives the same sequence.
C9_IterLeavesHeap ==
    pqOp = "iter" => (heap = pqBefore /\ iter(heap).out = pqRet)

C9_Witness == pqOp = "iter" /\ Len(heap) >= 3 /\ Len(pqRet) = Len(heap)

\* C10: on a non-empty queue removeMin returns an element with the least key
\* and removes exactly that element: the remaining multiset is the previous
\* one minus the returned element and the length decreases by one.
C10_RemoveMinRemovesLeast ==
    (pqOp = "removeMin" /\ Len(pqBefore) > 0) =>
        /\ \A i \in 1..Len(pqBefore) : ~lt(pqBefore[i], pqRet[1])
        /\ SameBag(heap \o pqRet, pqBefore)
        /\ Len(heap) = Len(pqBefore) - 1

C10_Witness ==
    /\ pqOp = "removeMin"
    /\ Len(pqBefore) = MaxHeap
    /\ pqBefore[Len(pqBefore)] # pqRet[1]

\* The records of the index file, as Index reads them with an empty cache.
Records(dsk) ==
    LET pad == CHOOSE p \in Pads : TRUE
        r == Index_entries([World EXCEPT !.disk = dsk, !.ientries = None], pad)
    IN  IF ok(r.w) THEN r.ret.v ELSE <<r.w.raised>>

\* The corpus getCorpus returns for the topic x (fields offset and endset).
CorpusOf(x) ==
    LET pad == CHOOSE p \in Pads : TRUE
    IN  Corpora_getCorpus(World, x, pad).ret

\* The names of the records s are in ascending order.
NamesAscending(s) == \A i \in 1..(Len(s) - 1) : ~StrLt(s[i + 1].name, s[i].name)

\* Index.insertEntries has just returned: the file is as it wrote it.
JustSaved == menu = "main" /\ ifs.mode = "w" /\ ientries = None

\* C2: on a sorted index, search(p) returns exactly the entries whose name
\* starts with the prefix p, at every position of the index.
C2_SearchReturnsAllMatches ==
    (menu = "search" /\ query # << >>) =>
        {searchResults[i] : i \in 1..Len(searchResults)}
            = {topics[i] : i \in {j \in 1..Len(topics) : re_match(query, topics[j].name)}}

\* C3: after any sequence of insertEntries calls, each given a batch sorted
\* ascending by name, the records of the index file are sorted ascending by
\* name.
C3_IndexSorted == JustSaved => NamesAscending(Records(disk))

C3_Witness ==
    /\ JustSaved
    /\ Len(saved) = 3
    /\ saved[3].id = 1
    /\ StrLt(saved[1].name, saved[3].name)
    /\ StrLt(saved[3].name, saved[2].name)

\* The records (name, offset, endset) of the topics the history holds from
\* position n on.
SavedRecords(h, n) ==
    [i \in 1..(Len(h) - n) |->
        [t |-> "FindTopic", name |-> h[n + i].name,
         offset |-> h[n + i].offset, endset |-> h[n + i].endset]]

\* C4: Index.insertEntries writes a file whose records are exactly the
\* multiset union of the records present before the call and the records of
\* the new batch, entries with equal names included.
C4_InsertIsUnion ==
    [][saved' # saved =>
          \A after \in {disk'} : \A batch \in {SavedRecords(saved', Len(saved))} :
              SameBag(Records(after), Records(disk) \o batch)]_vars

C4_Witness ==
    /\ JustSaved
    /\ Len(saved) = 3
    /\ saved[3].id = 1
    /\ saved[1].name = saved[3].name
    /\ StrLt(saved[1].name, saved[2].name)

\* C5: for every topic stored by Corpora._write, a later getCorpus with its
\* offset and endset returns exactly the bytes given as its body, whatever was
\* stored before or after it.
C5_CorpusFidelity ==
    \A i \in 1..Len(saved) : CorpusOf(saved[i]) = PyStr(saved[i].body)

C5_Witness ==
    /\ Len(saved) = 3
    /\ detail # None
    /\ detail.topic.offset = saved[2].offset
    /\ detail.topic.endset = saved[2].endset
    /\ detail.corpus = PyStr(saved[2].body)
    /\ saved[2].body # << >>
    /\ saved[1].body # << >>

\* C6: for any batch of new topics created in any order and passed through the
\* priority queue to Environment.insertEntries, the index lists the topics in
\* ascending name order, and getCorpus on each index entry returns the body
\* the topic of that name was created with.
C6_OrderAndContent ==
    JustSaved =>
        LET e == Records(disk)
        IN  /\ NamesAscending(e)
            /\ SameBag([i \in 1..Len(e) |-> <<e[i].name, CorpusOf(e[i])>>],
                       [i \in 1..Len(saved) |-> <<saved[i].name, PyStr(saved[i].body)>>])

C6_Witness ==
    /\ JustSaved
    /\ Len(saved) = 2
    /\ saved[1].id = 2
    /\ saved[2].id = 1
    /\ saved[1].body # saved[2].body

\* C11: on an empty queue removeMin and min both return None and leave the
\* heap as it was; on a non-empty queue min returns the root and leaves the
\* heap as it was.
C11_MinAndEmpty ==
    /\ (pqOp \in {"min", "removeMin"} /\ pqBefore = << >>) =>
           (pqRet = <<None>> /\ heap = << >>)
    /\ (pqOp = "min" /\ pqBefore # << >>) =>
           (pqRet = <<pqBefore[1]>> /\ heap = pqBefore)

C11_Witness ==
    /\ pqOp = "min"
    /\ Len(pqBefore) >= 2
    /\ pqRet = <<heap[1]>>
    /\ heap[1] # heap[2]

\* C12: for an EncryptedFile opened to write, after the writes w1..wk and
\* reOpen("r"), reads of the sizes len(w1)..len(wk) in that order return
\* w1..wk.
C12_ReadBackWrites ==
    fop = "read" =>
        /\ raised = ""
        /\ \A i \in 1..Len(fgot) : fgot[i] = chunks[i]

C12_Witness ==
    /\ fop = "read"
    /\ Len(fgot) = MaxWrites
    /\ fgot = chunks
    /\ Len(fgot[1]) >= 2
    /\ Len(fgot[2]) # Len(fgot[1])

\* C13: after reOpen(mode) with a mode other than the current one, the file
\* object it was called on is closed and its __key and _access are released,
\* no read, write or _key succeeds on it, and the _filestream stored is the
\* returned file object, which is open.
C13_PriorHandleDead ==
    /\ fop = "reOpen" =>
           /\ prior.closed /\ prior.__key = None /\ prior._access = None
           /\ ifs # prior
    /\ fop = "prior" => (raised # "" /\ disk = fpre.disk)
    /\ (fop # "new" /\ raised = "") => (~ifs.closed /\ ifs.__key # None)

C13_Witness ==
    /\ fop = "prior"
    /\ raised \in {"ValueError", "TypeError"}
    /\ chunks # << >>
    /\ prior.mode = "w"

\* C14: reOpen(mode) on a file object that is in that mode returns the same
\* file object and changes nothing: the contents of the file, the position,
\* the open state and the key held are as before.
C14_SameModeNoOp ==
    fop = "same" => (ifs = fpre.f /\ disk = fpre.disk /\ raised = "")

C14_Witness ==
    /\ fop = "same"
    /\ ifs.mode = "w"
    /\ ifs.pos > 0
    /\ disk[ifs.name] # << >>

\* C15: Environment.insertEntries writes the body of every topic of the batch
\* to the corpora file, which sets its offset and endset, before it writes the
\* index record of the topic: Index._write never formats an unset offset or
\* endset, and every record of the index points into bytes the corpora file
\* holds.
C15_CorporaBeforeIndex ==
    /\ raised # "ValueError"
    /\ \A i \in 1..Len(saved) : saved[i].offset.t = "int" /\ saved[i].endset.t = "int"
    /\ JustSaved =>
           \A e \in {Records(disk)} :
              \A j \in 1..Len(e) :
                 /\ e[j].endset.v <= Len(disk[Environment_CORPORA])
                 /\ \E i \in 1..Len(saved) :
                       /\ e[j].name = saved[i].name
                       /\ e[j].offset = saved[i].offset
                       /\ e[j].endset = saved[i].endset

C15_Witness ==
    /\ JustSaved
    /\ Len(saved) >= 2
    /\ saved[2].offset.t = "int" /\ saved[2].offset.v > 0
    /\ saved[2].endset.v > saved[2].offset.v
    /\ Len(Records(disk)) = Len(saved)

\* C16: for a buffer of length 0 or 1, cipher returns the buffer unchanged,
\* for every key, the empty key included.
C16_ShortBufferIdentity ==
    (Len(txt) <= 1 /\ cpc # "init") =>
        /\ cpc # "raised"
        /\ once = txt
        /\ cpc = "dec" => twice = txt

C16_Witness ==
    /\ cpc = "dec"
    /\ Len(txt) = 1
    /\ Len(k) = MaxKey
    /\ k[1] # 0
    /\ twice = txt

\* The sequence a is the beginning of the sequence b.
IsPrefix(a, b) == Len(a) <= Len(b) /\ \A i \in 1..Len(a) : a[i] = b[i]

\* C18: the corpora file only grows: no step of the program changes or removes
\* a byte it holds, and the topics stored keep their offset and endset.
C18_CorporaOnlyGrows ==
    [][/\ IsPrefix(disk[Environment_CORPORA], disk'[Environment_CORPORA])
       /\ IsPrefix(saved, saved')]_vars

C18_Witness ==
    /\ JustSaved
    /\ Len(saved) = 3
    /\ saved[1].body # << >>
    /\ saved[3].body # << >>
    /\ saved[3].offset.v >= saved[1].endset.v
    /\ Len(disk[Environment_CORPORA]) = saved[3].endset.v
    /\ CorpusOf(saved[1]) = PyStr(saved[1].body)

\* C17: every record Index._write emits is 44 bytes long, for every offset
\* and endset, those above 16^6 - 1 included, so the length of the index file
\* is a multiple of the record length.
C17_RecordWidth ==
    fop = "write" => Len(disk[Environment_INDEX]) = RecordLength * Len(chunks)

\* The n bytes of data after the first pos, fewer at the end of data.
Chunk(data, pos, n) ==
    SubSeq(data, pos + 1, IF pos + n <= Len(data) THEN pos + n ELSE Len(data))

\* The offset and endset fields of the index file data as three reads of 32, 6
\* and 6 bytes return them, deciphered with key, up to the end of the data.
RECURSIVE FieldsRead(_, _, _)
FieldsRead(data, key, pos) ==
    LET fields(name, offset, endset) ==
            IF name = << >> \/ offset = << >> \/ endset = << >> THEN << >>
            ELSE <<[offset |-> offset, endset |-> endset]>>
                     \o FieldsRead(data, key, pos + RecordLength)
    IN  fields(Chunk(data, pos, Index_NAME_LENGTH),
               cipher(Chunk(data, pos + Index_NAME_LENGTH, Index_OFFSET_LENGTH), key),
               cipher(Chunk(data, pos + Index_NAME_LENGTH + Index_OFFSET_LENGTH,
                            Index_END_BYTE_LENGTH), key))

\* Some offset or endset field of s is not a base-16 number.
Unparsable(s) == \E i \in 1..Len(s) : int16(s[i].offset) = -1 \/ int16(s[i].endset) = -1

\* C19: when an offset or endset field read from the index is not a base-16
\* number, loading the entries raises ValueError to the caller: no list of
\* entries is returned and none is kept.
C19_ParseFailureSurfaces ==
    (fop = "load" /\ Unparsable(FieldsRead(disk[Environment_INDEX], EncryptedFile_key(ifs), 0)))
        => (raised = "ValueError" /\ fgot = << >> /\ ientries = None)

C19_Witness ==
    /\ fop = "load"
    /\ raised = "ValueError"
    /\ Len(chunks) = 2
    /\ fpre # None /\ fpre.kind = "corrupt" /\ fpre.pos > RecordLength
    /\ Len(disk[Environment_INDEX]) = 2 * RecordLength

\* C20: when the index file ends with a partial record of 1 to 43 bytes,
\* loading the entries returns the complete records before it, produces no
\* record for the tail and raises no error.
C20_PartialTailIsEnd ==
    (/\ fop = "load"
     /\ fpre # None /\ fpre.kind = "truncate"
     /\ \A i \in 1..Len(chunks) : chunks[i].endset.v < Index_OFFSET_BASE ^ Index_END_BYTE_LENGTH)
        => /\ raised = ""
           /\ Len(fgot) = fpre.pos \div RecordLength
           /\ \A i \in 1..Len(fgot) : fgot[i] = chunks[i]

\* C21: on every change of mode of an EncryptedFile the file object in use is
\* flushed and closed before the new file object is opened on the same path:
\* two file objects are never open on the same file.
C21_CloseBeforeOpen ==
    (prior # None /\ ~prior.closed) => (ifs.closed /\ chunks = << >>)

\* C22: Index.entries caches its result and every _write clears the cache: a
\* cached tuple that is not empty is the parse of the index file, and between
\* two writes the file is read once, however often entries is accessed, for an
\* empty index as well.
C22_EntriesCached ==
    /\ (fpre = None /\ raised = "" /\ bool(ientries)) => ientries.v = Records(disk)
    /\ fop = "write" => ientries.t = "None"
    /\ reads <= 1

\* The key the corpora file is enciphered with.
CorporaKey == EncryptedFile_key(cfs)

StoresOf(id) == {i \in 1..Len(saved) : saved[i].id = id}

\* C24: the offset and endset of a NewTopic are None from its creation until
\* its body is appended to the corpora file, are set then, and never change
\* afterwards, a second attempt to store the same NewTopic included.
C24_OffsetsSetOnce ==
    \A id \in 1..Len(objs) :
       /\ StoresOf(id) = {} => (objs[id].offset = None /\ objs[id].endset = None)
       /\ \A i \in StoresOf(id) :
             objs[id].offset = saved[i].offset /\ objs[id].endset = saved[i].endset

\* The sum of the lengths of the bodies in s.
RECURSIVE SumLen(_)
SumLen(s) == IF s = << >> THEN 0 ELSE Len(Head(s).body) + SumLen(Tail(s))

\* C25: the body of a NewTopic is read at most once: the first read of the
\* property corpus returns the body and every later read returns None, so no
\* sequence of insertEntries calls writes the same body to the corpora file
\* twice.
C25_BodyReadOnce ==
    /\ fop = "corpus" =>
           /\ fgot = <<fpre.objs[fpre.ids[1]]._corpus>>
           /\ objs[fpre.ids[1]]._corpus.t = "None"
    /\ \A id \in 1..Len(objs) :
          /\ StoresOf(id) # {} => objs[id]._corpus.t = "None"
          /\ \A i \in StoresOf(id) : \A j \in StoresOf(id) : i = j
    /\ Len(disk[Environment_CORPORA]) = SumLen(saved)
    /\ raised \in {"", "TypeError"}

C25_Witness ==
    /\ fop = "insertEntries"
    /\ raised = "TypeError"
    /\ fpre.ids[1] = fpre.ids[2]
    /\ Len(saved) = 1
    /\ saved[1].body # << >>
    /\ Len(disk[Environment_CORPORA]) = Len(saved[1].body)

\* C26: for every passphrase given to EncryptedFile, the property _key of a
\* file object that is not closed returns that passphrase, and the file object
\* reOpen returns reveals the passphrase of the one it replaces, through any
\* sequence of changes of mode.
C26_KeyRevealed ==
    /\ ~ifs.closed => EncryptedFile_key(ifs) = k
    /\ (prior # None /\ ~prior.closed) => EncryptedFile_key(prior) = k

C26_Witness ==
    /\ fop = "opened"
    /\ ~ifs.closed /\ ~prior.closed
    /\ ifs._access # prior._access
    /\ ifs.__key # prior.__key
    /\ Len(k) = 2
    /\ EncryptedFile_key(prior) = k
    /\ disk[ifs.name] # << >>

\* The file object f holds neither the pad nor the enciphered passphrase.
NoSecret(f) == f.closed /\ f.__key = None /\ f._access = None

\* C27: EncryptedFile.close flushes and closes the file and discards the pad
\* and the enciphered passphrase; Environment.close does so for the file
\* object of the index and for that of the corpora.
C27_CloseReleases ==
    /\ fop \in {"shut", "closed", "envclosed"} =>
           /\ NoSecret(ifs)
           /\ EncryptedFile_key(ifs) = TypeError
           /\ chunks = << >>
           /\ \A start \in {IF fpre.f.mode = "a" THEN Len(fpre.disk[ifs.name])
                             ELSE fpre.f.pos - Len(fpre.buf)} :
                 SubSeq(disk[ifs.name], start + 1, start + Len(fpre.buf)) = fpre.buf
    /\ fop = "envclosed" => NoSecret(cfs)
    /\ fop # "envclosed" => ~cfs.closed

C27_Witness ==
    /\ fop = "envclosed"
    /\ fpre.buf # << >>
    /\ ~fpre.f.closed /\ fpre.f.__key # None
    /\ fpre.disk[ifs.name] # << >>
    /\ disk[ifs.name] # fpre.disk[ifs.name]
    /\ cfs.closed

\* The part of a name NewTopic keeps: the name when it has at most 31 bytes,
\* its first 31 bytes otherwise.
Kept(name) ==
    IF Len(name) <= Index_NAME_LENGTH - 1 THEN name
    ELSE SubSeq(name, 1, Index_NAME_LENGTH - 1)

\* C28: for every name, NewTopic stores a padded name of 32 bytes: the kept
\* part of the name, one byte 0x00, and filler bytes none of which is 0x00;
\* FindTopic.cleanName of the padded name is the kept part of the name.
C28_PaddedName ==
    /\ \A id \in 1..Len(objs) :
          \A name \in {objs[id].name} : \A kept \in {Kept(objs[id].printName)} :
             /\ Len(name) = Index_NAME_LENGTH
             /\ SubSeq(name, 1, Len(kept)) = kept
             /\ name[Len(kept) + 1] = FindTopic_NULL
             /\ \A i \in (Len(kept) + 2)..Len(name) : name[i] # FindTopic_NULL
    /\ fop = "cleanName" => fgot = <<Kept(objs[fpre.ids[1]].printName)>>

C28_Witness ==
    /\ fop = "cleanName"
    /\ Len(objs) = 2
    /\ fpre.ids = <<2>>
    /\ Len(objs[1].printName) = Index_NAME_LENGTH + 1
    /\ objs[2].printName = <<97, FindTopic_NULL, 98>>
    /\ fgot = <<objs[2].printName>>

\* The mask cipher applies to the buffer b under the key key: cipher(b, key)
\* XOR b bytewise, IndexError when cipher raises it.
Mask(b, key) ==
    LET m(c) == IF c = IndexError THEN IndexError
                ELSE IF Len(c) # Len(b) THEN << >>
                ELSE [i \in 1..Len(b) |-> BitXor(c[i], b[i])]
    IN  m(cipher(b, key))

\* C29: the mask cipher applies depends on the length of the buffer and on the
\* key only: for every buffer b2 of the length of txt, cipher(b2, k) XOR b2 is
\* cipher(txt, k) XOR txt, and the output has the length of the input.
C29_MaskIndependentOfContent ==
    cpc # "init" =>
        /\ cpc # "raised" => Len(once) = Len(txt)
        /\ \A b2 \in {b \in SeqsUpTo(ByteSample, MaxBuf) : Len(b) = Len(txt)} :
              Mask(b2, k) = Mask(txt, k)

C29_Witness ==
    /\ cpc = "enc"
    /\ Len(txt) = MaxBuf
    /\ Len(k) = 2 /\ k[1] # k[2]
    /\ txt[1] # txt[2]
    /\ once # txt
    /\ Mask(txt, k) = Mask([i \in 1..MaxBuf |-> 0], k)

\* The byte ranges <<from, to>> of the strings Index._write wrote for the
\* records s, the first at position pos.
RECURSIVE WriteRanges(_, _)
WriteRanges(s, pos) ==
    IF s = << >> THEN {}
    ELSE LET units(a, b, c) ==
                 {<<pos, pos + a>>, <<pos + a, pos + a + b>>, <<pos + a + b, pos + a + b + c>>}
                     \cup WriteRanges(Tail(s), pos + a + b + c)
         IN  units(Len(Head(s).name),
                   Len(format0x(Head(s).offset.v, Index_OFFSET_LENGTH)),
                   Len(format0x(Head(s).endset.v, Index_END_BYTE_LENGTH)))

\* The byte ranges of the reads of 32, 6 and 6 bytes Index._nextEntry issues
\* on a file of n bytes from position pos on, those that return no byte left
\* out.
RECURSIVE ReadRanges(_, _)
ReadRanges(n, pos) ==
    IF pos >= n THEN {}
    ELSE {r \in {<<pos, pos + Index_NAME_LENGTH>>,
                 <<pos + Index_NAME_LENGTH, pos + Index_NAME_LENGTH + Index_OFFSET_LENGTH>>,
                 <<pos + Index_NAME_LENGTH + Index_OFFSET_LENGTH, pos + RecordLength>>} :
             r[1] < n}
         \cup ReadRanges(n, pos + RecordLength)

\* C30: every read Index issues on its EncryptedFile covers the bytes of one
\* earlier write: no read spans or splits a buffer that was enciphered as a
\* whole.
C30_ReadsCoverWrites ==
    (fop \in {"load", "cached"} /\ fpre = None) =>
        /\ ReadRanges(Len(disk[Environment_INDEX]), 0) \subseteq WriteRanges(chunks, 0)
        /\ raised = ""
        /\ fgot = chunks

====
